---- MODULE Spec2Model ----
(***************************************************************************)
(* Generation-request batching and retry pipeline of fms_dgt:              *)
(* OpenaiCompletionsLM.generate_batch (group by str(kwargs), chunk by      *)
(* batch_size, modify_gen_kwargs, oa_completion with its retry decorator,  *)
(* zip of response.choices with the chunk, result scatter, progress bar).  *)
(*                                                                         *)
(* Python values are encoded uniformly so that TLC can compare them:       *)
(*   a value is a record [t, s, n]: t is the Python type ("str", "list",   *)
(*   "int", "none"), s the string(s), n the number;                        *)
(*   a dict is the sequence of its <<key, value>> items in insertion       *)
(*   order; an Instance.kwargs is [dict |-> BOOLEAN, items |-> dict].      *)
(***************************************************************************)
EXTENDS Integers, Sequences, FiniteSets, TLC

(* ------------------------------ bounds -------------------------------- *)

\* longest list of requests handed to generate_batch
MaxRequests == 3
\* largest configured batch size
MaxBatch == 2
\* largest finite retry budget handed to the retry decorator
MaxBudget == 2
\* per-call counters (attempts, callbacks, sleeps) saturate here
MaxCount == 3
\* longest list of requests of the chunk-count scenarios
MaxLong == 5

(* ------------------------------ values -------------------------------- *)

StrV(x) == [t |-> "str", s |-> <<x>>, n |-> 0]
ListV(xs) == [t |-> "list", s |-> xs, n |-> 0]
IntV(i) == [t |-> "int", s |-> <<>>, n |-> i]
NoneV == [t |-> "none", s |-> <<>>, n |-> 0]

Min(a, b) == IF a <= b THEN a ELSE b

Range(f) == {f[i] : i \in DOMAIN f}

(* ------------------------------ dicts --------------------------------- *)

Keys(d) == {d[i][1] : i \in DOMAIN d}

HasKey(d, k) == k \in Keys(d)

\* d[k] for a key that is present
DictGet(d, k) == d[CHOOSE i \in DOMAIN d : d[i][1] = k][2]

\* d.get(k, default)
DictGetOr(d, k, default) == IF HasKey(d, k) THEN DictGet(d, k) ELSE default

\* d[k] = v: an existing key keeps its place, a new key goes last
DictSet(d, k, v) ==
    IF HasKey(d, k)
    THEN [i \in DOMAIN d |-> IF d[i][1] = k THEN <<k, v>> ELSE d[i]]
    ELSE Append(d, <<k, v>>)

\* the dict left by d.pop(k) / d.pop(k, None)
DictDel(d, k) == SelectSeq(d, LAMBDA it : it[1] # k)

\* a merge in which the defaults win over the chunk's options
RECURSIVE DictMergeDefaultsWin(_, _)
DictMergeDefaultsWin(a, b) ==
    IF b = <<>> THEN a
    ELSE DictMergeDefaultsWin(
             IF HasKey(a, Head(b)[1]) THEN a
             ELSE DictSet(a, Head(b)[1], Head(b)[2]),
             Tail(b))

\* {**a, **b}
RECURSIVE DictMerge(_, _)
DictMerge(a, b) ==
    IF b = <<>> THEN a
    ELSE DictMerge(DictSet(a, Head(b)[1], Head(b)[2]), Tail(b))

(* --------------------------- str(x.kwargs) ---------------------------- *)

\* repr of a Python string, as tokens
Quoted(x) == <<"'", x, "'">>

\* repr of the elements of a list of strings, comma separated
RECURSIVE ReprStrs(_)
ReprStrs(xs) ==
    IF xs = <<>> THEN <<>>
    ELSE Quoted(Head(xs)) \o (IF Tail(xs) = <<>> THEN <<>> ELSE <<",">>)
         \o ReprStrs(Tail(xs))

\* repr of a value
Repr(v) ==
    CASE v.t = "str" -> Quoted(v.s[1])
      [] v.t = "list" -> <<"[">> \o ReprStrs(v.s) \o <<"]">>
      [] v.t = "int" -> <<ToString(v.n)>>
      [] OTHER -> <<"None">>

\* repr of the items of a dict ("'k': v, ...") or of a list of pairs
\* ("('k', v), ...")
RECURSIVE ReprItems(_, _)
ReprItems(items, asDict) ==
    IF items = <<>> THEN <<>>
    ELSE (IF asDict
          THEN Quoted(Head(items)[1]) \o <<":">> \o Repr(Head(items)[2])
          ELSE <<"(">> \o Quoted(Head(items)[1]) \o <<",">>
               \o Repr(Head(items)[2]) \o <<")">>)
         \o (IF Tail(items) = <<>> THEN <<>> ELSE <<",">>)
         \o ReprItems(Tail(items), asDict)

\* a key that tells a dict from a list of pairs and nothing else
StrShapeOnly(kw) == IF kw.dict THEN <<"{", "}">> ELSE <<"[", "]">>

\* str(x.kwargs): the group key of generate_batch
Str(kw) ==
    IF kw.dict THEN <<"{">> \o ReprItems(kw.items, TRUE) \o <<"}">>
    ELSE <<"[">> \o ReprItems(kw.items, FALSE) \o <<"]">>

(* --------------------------- Grouper, chunks -------------------------- *)

\* Grouper(requests, fn).get_grouped(): the groups in order of first
\* occurrence of their key, each the indices of its requests in input order
RECURSIVE GroupFrom(_, _, _)
GroupFrom(keys, i, acc) ==
    IF i > Len(keys) THEN acc
    ELSE LET hit == {g \in DOMAIN acc : acc[g].key = keys[i]}
         IN GroupFrom(keys, i + 1,
                IF hit = {}
                THEN Append(acc, [key |-> keys[i], reqs |-> <<i>>])
                ELSE [g \in DOMAIN acc |->
                        IF g \in hit
                        THEN [acc[g] EXCEPT !.reqs = Append(@, i)]
                        ELSE acc[g]])

GetGrouped(reqs) ==
    GroupFrom([i \in DOMAIN reqs |-> Str(reqs[i].kwargs)], 1, <<>>)

\* chunks(reqs, n) for n > 0: consecutive pieces of n, the last one shorter
RECURSIVE Chunks(_, _)
Chunks(xs, n) ==
    IF xs = <<>> THEN <<>>
    ELSE <<SubSeq(xs, 1, Min(n, Len(xs)))>>
         \o Chunks(SubSeq(xs, Min(n, Len(xs)) + 1, Len(xs)), n)

(* -------------------------- modify_gen_kwargs ------------------------- *)

\* kwargs.pop(k) of the optional generic options
DropIfPresent(d, k) == IF HasKey(d, k) THEN DictDel(d, k) ELSE d

\* a stop value that leaves a str as it is
StopOfUnwrapped(until) ==
    IF until.t \in {"str", "list"} THEN [ok |-> TRUE, v |-> until]
    ELSE [ok |-> FALSE, v |-> until]

\* the stop value built from stop_sequences: a str is wrapped in a list, a
\* list is kept, anything else is rejected
StopOf(until) ==
    IF until.t = "str" THEN [ok |-> TRUE, v |-> ListV(until.s)]
    ELSE IF until.t = "list" THEN [ok |-> TRUE, v |-> until]
    ELSE [ok |-> FALSE, v |-> until]

\* a translation that leaves max_new_tokens beside max_tokens
RenameKeepingOld(d) ==
    IF HasKey(d, "max_new_tokens")
    THEN DictSet(d, "max_tokens", DictGet(d, "max_new_tokens"))
    ELSE d

\* kwargs["max_tokens"] = kwargs.pop("max_new_tokens")
RenameMaxTokens(d) ==
    IF HasKey(d, "max_new_tokens")
    THEN DictSet(DictDel(d, "max_new_tokens"), "max_tokens",
                 DictGet(d, "max_new_tokens"))
    ELSE d

\* modify_gen_kwargs(gen_kwargs): [ok |-> FALSE] stands for the ValueError
ModifyGenKwargs(base, gen_kwargs) ==
    IF ~gen_kwargs.dict THEN [ok |-> FALSE, kwargs |-> <<>>]
    ELSE LET merged == DictMerge(base, gen_kwargs.items)
             has == HasKey(merged, "stop_sequences")
             stop == IF has THEN StopOf(DictGet(merged, "stop_sequences"))
                     ELSE [ok |-> TRUE, v |-> NoneV]
             popped == IF has THEN DictDel(merged, "stop_sequences")
                       ELSE merged
             stopped == DictSet(popped, "stop", stop.v)
             renamed == RenameMaxTokens(stopped)
             trimmed == DictDel(DropIfPresent(DropIfPresent(renamed,
                            "min_new_tokens"), "decoding_method"),
                            "random_seed")
         IN IF stop.ok THEN [ok |-> TRUE, kwargs |-> trimmed]
            ELSE [ok |-> FALSE, kwargs |-> <<>>]

(* ------------------------------ inputs -------------------------------- *)

\* prompts (instance.args[0])
Prompts == {"p1", "p2"}

\* a text no prompt is equal to
Junk == "junk"

DictKw(items) == [dict |-> TRUE, items |-> items]

\* the generation options an Instance may carry: none, well-formed options
\* with a per-instance model, a stop_sequences that is neither str nor
\* list, and a kwargs that is not a dict (a list of pairs)
KwargsPool ==
    { DictKw(<<>>),
      DictKw(<< <<"stop_sequences", StrV("STOP")>>,
                <<"max_new_tokens", IntV(50)>>,
                <<"model_id_or_path", StrV("m2")>> >>),
      DictKw(<< <<"stop_sequences", IntV(7)>> >>),
      [dict |-> FALSE, items |-> << <<"max_new_tokens", IntV(50)>> >>] }

\* the dispatcher-wide default generation options (self._base_kwargs)
BaseKwargsPool ==
    { << <<"max_new_tokens", IntV(20)>>, <<"random_seed", IntV(1)>> >> }

\* the dispatcher-wide default model (self.model_id_or_path)
DefaultModels == {"m0"}

\* Instance.result before it is written
Unset == [set |-> FALSE, text |-> "", until |-> NoneV]

NewInstance(prompt, kw) ==
    [args |-> <<prompt>>, kwargs |-> kw, result |-> Unset, writes |-> 0]

Instances == {NewInstance(p, kw) : p \in Prompts, kw \in KwargsPool}

RequestLists == UNION {[1..n -> Instances] : n \in 0..MaxRequests}

\* self.batch_size after __init__ (None has become 1; any other number,
\* negative or 0 included, is kept)
BatchSizes == -1..MaxBatch

(* --------------------------- retry settings --------------------------- *)

Unbounded == [bounded |-> FALSE, n |-> 0]
Bounded(m) == [bounded |-> TRUE, n |-> m]

\* a budget of one attempt
OaMaxRetriesOnce == Bounded(1)

\* oa_completion: max_retries=None
OaMaxRetries == Unbounded

\* retry on every exception
OnAnyException == {"Exception"}

\* oa_completion: on_exceptions=[openai.OpenAIError]
OnExceptions == {"OpenAIError"}

\* no callback handed to the decorator
NoExceptionCallback == FALSE

\* oa_completion: on_exception_callback=_exception_callback
HasExceptionCallback == TRUE

\* the exceptions a backend call may raise: one that is an OpenAIError (a
\* rate limit) and one that is not
ExcKinds == {"RateLimitError", "TypeError"}

\* isinstance(e, cls)
IsInstance(kind, cls) ==
    \/ kind = cls
    \/ cls = "Exception"
    \/ (cls = "OpenAIError" /\ kind = "RateLimitError")

\* the exception is of a kind oa_completion asks to retry on
Retryable(kind) == \E cls \in OnExceptions : IsInstance(kind, cls)

\* the wrapper's except clause: except tuple(on_exceptions)
Catches(kind) == Retryable(kind)

\* a handler that swallows the exception and goes on with the zip
Swallowed == "scatter"

\* generate_batch has no handler around oa_completion, and oa_completion
\* none around the wrapper: an exception that leaves the wrapper leaves
\* generate_batch
Uncaught == "raised"

NoExc == [kind |-> "none", id |-> 0]

\* a loop that allows one attempt more than the budget
MayAttemptOneMore(budget, att) == ~budget.bounded \/ att <= budget.n

\* a loop that never tests the budget
MayAttemptAlways(budget, att) == TRUE

\* while max_retries is None or attempt < max_retries
MayAttempt(budget, att) == ~budget.bounded \/ att < budget.n

Sat(c) == Min(c + 1, MaxCount)

(* ------------------------------ backend ------------------------------- *)

\* self._prepare_input(prompt)
PrepareInput(prompt) == prompt

\* self._extract_output(resp)
ExtractOutput(resp) == resp.text

\* the echoing stub: one choice per prompt, in request order
Echo(inputs) == [i \in DOMAIN inputs |-> [text |-> inputs[i]]]

Reverse(xs) == [i \in DOMAIN xs |-> xs[Len(xs) + 1 - i]]

\* response.choices a backend may return for a call: the echo, the echo cut
\* short or with a choice too many, the echo in reverse order
Responses(inputs) ==
    {SubSeq(Echo(inputs) \o <<[text |-> Junk]>>, 1, n) :
        n \in 0..(Len(inputs) + 1)}
    \cup {Reverse(Echo(inputs))}

\* update_instance_with_result("generate_batch", s, instance, until)
UpdateInstanceWithResult(inst, s, until) ==
    [inst EXCEPT !.result = [set |-> TRUE, text |-> s, until |-> until],
                 !.writes = @ + 1]

(* ------------------------------- state -------------------------------- *)

VARIABLES
    requests,          \* the Instances handed to generate_batch
    batch_size,        \* self.batch_size
    base_kwargs,       \* self._base_kwargs
    model_id_or_path,  \* self.model_id_or_path
    max_retries,       \* the retry decorator's max_retries
    client,            \* self.client
    pc,                \* where generate_batch stands
    grouped,           \* grouper.get_grouped()
    gi,                \* the group the outer loop is at
    chunks,            \* chunks(reqs, n=self.batch_size) of that group
    ci,                \* the chunk the inner loop is at
    payload,           \* model and kwargs of the oa_completion call
    until,             \* kwargs.get("stop", None)
    attempt,           \* the wrapper's attempt counter
    invocations,       \* calls of completion() made by this oa_completion
    retryable,         \* retryable errors completion() raised in it
    callbacks,         \* calls of _exception_callback in it
    sleeps,            \* backoff sleeps in it
    firstExc,          \* the first exception completion() raised in it
    lastExc,           \* the last one
    response,          \* response.choices of the call that returned
    zi,                \* position of the zip over (choices, chunk)
    pbar,              \* pbar.n
    sent,              \* the chunks for which the backend was invoked
    echoed,            \* every response so far was the echo of its call
    err                \* the exception generate_batch raised

vars == <<requests, batch_size, base_kwargs, model_id_or_path, max_retries,
          client, pc, grouped, gi, chunks, ci, payload, until, attempt, invocations,
          retryable, callbacks, sleeps, firstExc, lastExc, response, zi,
          pbar, sent, echoed, err>>

config == <<batch_size, base_kwargs, model_id_or_path, max_retries, client>>
loopVars == <<grouped, gi, chunks, ci>>
callVars == <<payload, until>>
retryVars == <<attempt, invocations, retryable, callbacks, sleeps,
               firstExc, lastExc>>

NoPayload == [model |-> "", kwargs |-> <<>>]

\* self.client after __init__: a local endpoint with the key "EMPTY"
Clients == {[base_url |-> "http://local", api_key |-> "EMPTY"]}

\* the state after construction, for requests drawn from lists, defaults
\* from bases and a retry budget from budgets
InitOver(lists, bases, budgets) ==
    /\ requests \in lists
    /\ batch_size \in BatchSizes
    /\ base_kwargs \in bases
    /\ model_id_or_path \in DefaultModels
    /\ max_retries \in budgets
    /\ client \in Clients
    /\ pc = "start"
    /\ grouped = <<>>
    /\ gi = 0
    /\ chunks = <<>>
    /\ ci = 0
    /\ payload = NoPayload
    /\ until = NoneV
    /\ attempt = 0
    /\ invocations = 0
    /\ retryable = 0
    /\ callbacks = 0
    /\ sleeps = 0
    /\ firstExc = NoExc
    /\ lastExc = NoExc
    /\ response = <<>>
    /\ zi = 0
    /\ pbar = 0
    /\ sent = <<>>
    /\ echoed = TRUE
    /\ err = NoExc

InitWith(budgets) == InitOver(RequestLists, BaseKwargsPool, budgets)

\* the dispatcher as oa_completion configures its retries
Init == InitWith({OaMaxRetries})

\* the chunk the inner loop is at: indices into requests
Chunk == chunks[ci]

(* ------------------------------ actions ------------------------------- *)

\* generate_batch without the Grouper: all requests in one group
DispatchOneGroup ==
    /\ pc = "start"
    /\ grouped' = IF requests = <<>> THEN <<>>
                  ELSE <<[key |-> Str(requests[1].kwargs),
                          reqs |-> [i \in DOMAIN requests |-> i]]>>
    /\ IF requests = <<>>
       THEN pc' = "done" /\ gi' = 0
       ELSE pc' = "group" /\ gi' = 1
    /\ UNCHANGED <<requests, config, chunks, ci, callVars, retryVars,
                   response, zi, pbar, sent, echoed, err>>

\* generate_batch up to the head of the loop over the groups
Dispatch ==
    /\ pc = "start"
    /\ grouped' = GetGrouped(requests)
    /\ IF GetGrouped(requests) = <<>>
       THEN pc' = "done" /\ gi' = 0
       ELSE pc' = "group" /\ gi' = 1
    /\ UNCHANGED <<requests, config, chunks, ci, callVars, retryVars,
                   response, zi, pbar, sent, echoed, err>>

\* a chunk size that is the batch size and one more
ChunkSizePlusOne == batch_size + 1

\* a chunk size clamped to be at least one
ChunkSizeAtLeastOne == IF batch_size <= 0 THEN 1 ELSE batch_size

\* n=self.batch_size
ChunkSize == batch_size

\* the requests of a group, last first
GroupReqsReversed(g) == Reverse(grouped[g].reqs)

\* reqs of "for key, reqs in grouper.get_grouped().items()"
GroupReqs(g) == grouped[g].reqs

\* chunks(reqs, n=self.batch_size) for the group the loop is at
ChunkGroup ==
    /\ pc = "group"
    /\ IF ChunkSize <= 0
       THEN /\ pc' = "raised"
            /\ err' = [kind |-> "ValueError", id |-> 0]
            /\ UNCHANGED <<chunks, ci>>
       ELSE /\ chunks' = Chunks(GroupReqs(gi), ChunkSize)
            /\ ci' = 1
            /\ pc' = "chunk"
            /\ err' = err
    /\ UNCHANGED <<requests, config, grouped, gi, callVars, retryVars,
                   response, zi, pbar, sent, echoed>>

\* the inputs of the chunk
Inputs(c) == [i \in DOMAIN c |-> PrepareInput(requests[c[i]].args[1])]

\* gen_kwargs = next(iter(chunk)).kwargs
GenKwargs(c) == requests[c[1]].kwargs

\* model and kwargs of the call for a chunk whose options were accepted
PayloadOf(c, kwargs) ==
    LET withPrompt == DictSet(kwargs, "prompt", ListV(Inputs(c)))
    IN [model |-> IF HasKey(withPrompt, "model_id_or_path")
                  THEN DictGet(withPrompt, "model_id_or_path").s[1]
                  ELSE model_id_or_path,
        kwargs |-> DictDel(withPrompt, "model_id_or_path")]

\* modify_gen_kwargs working on gen_kwargs itself: the caller's kwargs end
\* up as the translated ones
KwargsNotCopied(gen_kwargs, modified) == DictKw(modified)

\* the kwargs of the first instance after modify_gen_kwargs returned: the
\* function works on copy.deepcopy(gen_kwargs) and on a new merged dict
KwargsAfterModify(gen_kwargs, modified) == gen_kwargs

\* one chunk up to the call of oa_completion
PrepareChunk ==
    /\ pc = "chunk"
    /\ LET m == ModifyGenKwargs(base_kwargs, GenKwargs(Chunk))
       IN IF m.ok
          THEN /\ payload' = PayloadOf(Chunk, m.kwargs)
               /\ requests' = [requests EXCEPT ![Chunk[1]].kwargs =
                                  KwargsAfterModify(@, m.kwargs)]
               /\ until' = DictGetOr(PayloadOf(Chunk, m.kwargs).kwargs,
                                     "stop", NoneV)
               /\ pc' = "call"
               /\ err' = err
          ELSE /\ pc' = "raised"
               /\ err' = [kind |-> "ValueError", id |-> 0]
               /\ UNCHANGED <<payload, until, requests>>
    /\ attempt' = 0
    /\ invocations' = 0
    /\ retryable' = 0
    /\ callbacks' = 0
    /\ sleeps' = 0
    /\ firstExc' = NoExc
    /\ lastExc' = NoExc
    /\ UNCHANGED <<config, loopVars, response, zi, pbar, sent, echoed>>

\* the backend is invoked for the chunk: it is recorded once per chunk
Sent == IF invocations = 0 THEN Append(sent, Chunk) ELSE sent

\* completion() returns
CallReturns ==
    /\ pc = "call"
    /\ \E r \in Responses(DictGet(payload.kwargs, "prompt").s) :
          /\ response' = r
          /\ echoed' = (echoed
                        /\ r = Echo(DictGet(payload.kwargs, "prompt").s))
    /\ invocations' = Sat(invocations)
    /\ sent' = Sent
    /\ zi' = 1
    /\ pc' = "scatter"
    /\ UNCHANGED <<requests, config, loopVars, callVars, attempt, retryable,
                   callbacks, sleeps, firstExc, lastExc, pbar, err>>

\* completion() raises: an exception the decorator names goes to the
\* callback, any other leaves oa_completion and generate_batch
CallRaises ==
    /\ pc = "call"
    /\ \E kind \in ExcKinds :
          LET e == [kind |-> kind, id |-> Sat(invocations)]
          IN /\ lastExc' = e
             /\ firstExc' = IF firstExc = NoExc THEN e ELSE firstExc
             /\ retryable' = IF Retryable(kind)
                             THEN Sat(retryable) ELSE retryable
             /\ IF Catches(kind)
                THEN /\ callbacks' = IF HasExceptionCallback
                                     THEN Sat(callbacks) ELSE callbacks
                     /\ pc' = "retrying"
                     /\ err' = err
                ELSE /\ pc' = Uncaught
                     /\ err' = e
                     /\ callbacks' = callbacks
    /\ invocations' = Sat(invocations)
    /\ sent' = Sent
    /\ UNCHANGED <<requests, config, loopVars, callVars, attempt, sleeps,
                   response, zi, pbar, echoed>>

\* the exception the wrapper raises once its budget is spent
Exhausted == lastExc

\* time.sleep, the attempt is counted and the loop condition is tested
Backoff ==
    /\ pc = "retrying"
    /\ sleeps' = Sat(sleeps)
    /\ attempt' = Sat(attempt)
    /\ IF MayAttempt(max_retries, Sat(attempt))
       THEN pc' = "call" /\ err' = err
       ELSE pc' = Uncaught /\ err' = Exhausted
    /\ UNCHANGED <<requests, config, loopVars, callVars, invocations,
                   retryable, callbacks, firstExc, lastExc, response, zi,
                   pbar, sent, echoed>>

\* a zip that pairs the choices with the chunk from its far end
ZipTargetFromEnd(c, z) == c[Len(c) + 1 - z]

\* the instance zip pairs with the z-th choice
ZipTarget(c, z) == c[z]

\* one pair of zip(response.choices, chunk)
ScatterOne ==
    /\ pc = "scatter"
    /\ zi <= Min(Len(response), Len(Chunk))
    /\ requests' = [requests EXCEPT ![ZipTarget(Chunk, zi)] =
           UpdateInstanceWithResult(@, ExtractOutput(response[zi]), until)]
    /\ pbar' = pbar + 1
    /\ zi' = zi + 1
    /\ UNCHANGED <<config, loopVars, callVars, retryVars, response, sent,
                   echoed, pc, err>>

\* the zip is over: the next chunk, the next group, or pbar.close()
NextChunk ==
    /\ pc = "scatter"
    /\ zi > Min(Len(response), Len(Chunk))
    /\ IF ci < Len(chunks)
       THEN ci' = ci + 1 /\ pc' = "chunk" /\ gi' = gi
       ELSE IF gi < Len(grouped)
            THEN gi' = gi + 1 /\ pc' = "group" /\ ci' = ci
            ELSE pc' = "done" /\ UNCHANGED <<gi, ci>>
    /\ UNCHANGED <<requests, config, grouped, chunks, callVars, retryVars,
                   response, zi, pbar, sent, echoed, err>>

Next ==
    \/ Dispatch
    \/ ChunkGroup
    \/ PrepareChunk
    \/ CallReturns
    \/ CallRaises
    \/ Backoff
    \/ ScatterOne
    \/ NextChunk

Spec == Init /\ [][Next]_vars

\* the retry decorator under any setting of max_retries
BoundedBudgets == {Bounded(m) : m \in 1..MaxBudget}

InitRetry == InitWith({Unbounded} \cup BoundedBudgets)

SpecRetry == InitRetry /\ [][Next]_vars

\* the dispatcher over a retry decorator with a finite budget
InitBounded == InitWith(BoundedBudgets)

SpecBounded == InitBounded /\ [][Next]_vars

\* generate_batch over longer lists of requests that carry one prompt and
\* one of two well-formed kwargs signatures
Signatures ==
    { DictKw(<<>>), DictKw(<< <<"max_new_tokens", IntV(50)>> >>) }

LongLists ==
    UNION {[1..n -> {NewInstance("p1", kw) : kw \in Signatures}] :
              n \in 0..MaxLong}

InitChunks == InitOver(LongLists, BaseKwargsPool, {OaMaxRetries})

SpecChunks == InitChunks /\ [][Next]_vars

\* generate_batch for one instance over the generation options the
\* translation knows and two it passes on: every choice of a value per name
RECURSIVE DictsOver(_, _)
DictsOver(names, values) ==
    IF names = <<>> THEN {<<>>}
    ELSE LET rest == DictsOver(Tail(names), values)
         IN rest \cup {<< <<Head(names), v>> >> \o d :
                          v \in values[Head(names)], d \in rest}

\* the values an instance may give to an option
InstanceOptions ==
    [stop_sequences |-> {StrV("STOP"), ListV(<<"STOP", "END">>), IntV(7),
                         NoneV},
     max_new_tokens |-> {IntV(50)},
     min_new_tokens |-> {IntV(5)},
     decoding_method |-> {StrV("greedy")},
     random_seed |-> {IntV(2)},
     temperature |-> {IntV(1)},
     stop |-> {ListV(<<"X">>)},
     model_id_or_path |-> {StrV("m2")}]

\* the values the dispatcher-wide defaults may give to an option
DefaultOptions ==
    [stop_sequences |-> {StrV("B")},
     max_new_tokens |-> {IntV(20)},
     random_seed |-> {IntV(1)},
     temperature |-> {IntV(0)},
     stop |-> {ListV(<<"Y">>)}]

OptionKwargs ==
    {DictKw(d) : d \in DictsOver(<<"stop_sequences", "max_new_tokens",
                                   "min_new_tokens", "decoding_method",
                                   "random_seed", "temperature", "stop",
                                   "model_id_or_path">>, InstanceOptions)}
    \cup {[dict |-> FALSE, items |-> << <<"max_new_tokens", IntV(50)>> >>]}

OptionBases ==
    DictsOver(<<"stop_sequences", "max_new_tokens", "random_seed",
                "temperature", "stop">>, DefaultOptions)

OptionLists == {<<NewInstance("p1", kw)>> : kw \in OptionKwargs}

InitOptions == InitOver(OptionLists, OptionBases, {OaMaxRetries})

SpecOptions == InitOptions /\ [][Next]_vars

(* ------------------------------ claims -------------------------------- *)

Returned == pc = "done"
Raised == err # NoExc
Ended == Returned \/ Raised

\* the instances of the chunks the backend was invoked for before the last
EarlierSent == UNION {Range(sent[k]) : k \in 1..(Len(sent) - 1)}

\* modify_gen_kwargs rejects the options
Malformed(kw) == ~ModifyGenKwargs(base_kwargs, kw).ok

\* C1: when generate_batch returns normally (batch size >= 1, any backend
\* behaviour), every submitted instance has had its result written exactly
\* once: none is left unset, none is written twice.
C1_EveryResultWrittenOnce ==
    (Returned /\ batch_size >= 1) =>
        \A i \in DOMAIN requests :
            requests[i].result.set /\ requests[i].writes = 1

\* C2: when every backend call returned one response per request in request
\* order (the echo), each written result is the response to that instance's
\* own first argument, written once, and after dispatch every instance has
\* one.
C2_EchoRoutedToOwnInstance ==
    echoed =>
        /\ \A i \in DOMAIN requests :
              requests[i].result.set =>
                  /\ requests[i].result.text = requests[i].args[1]
                  /\ requests[i].writes = 1
        /\ Returned => \A i \in DOMAIN requests : requests[i].result.set

\* C2 witness: a dispatch over two groups returned, all responses echoes,
\* one chunk holding two instances with different prompts.
C2_Witness ==
    /\ Returned /\ echoed /\ Len(grouped) >= 2
    /\ \E k \in DOMAIN sent :
          /\ Len(sent[k]) = 2
          /\ requests[sent[k][1]].args # requests[sent[k][2]].args
          /\ requests[sent[k][1]].result.text = requests[sent[k][1]].args[1]

\* C3: every backend call carries the prompts of at most batch_size
\* instances of one group: the instances of a chunk have the same
\* str(kwargs), and the options sent with the call, built from the first
\* instance, are those any instance of the chunk would give.
C3_ChunkWithinOneGroup ==
    /\ \A k \in DOMAIN sent :
          /\ Len(sent[k]) <= batch_size
          /\ \A i, j \in Range(sent[k]) :
                /\ Str(requests[i].kwargs) = Str(requests[j].kwargs)
                /\ requests[i].kwargs = requests[j].kwargs
    /\ pc \in {"call", "retrying", "scatter"} =>
          /\ Len(DictGet(payload.kwargs, "prompt").s) = Len(Chunk)
          /\ Len(Chunk) <= batch_size
          /\ \A i \in Range(Chunk) :
                /\ ModifyGenKwargs(base_kwargs, requests[i].kwargs).ok
                /\ payload = PayloadOf(Chunk,
                       ModifyGenKwargs(base_kwargs, requests[i].kwargs).kwargs)

\* C3 witness: the backend is being called for a full chunk of two
\* instances while another group with other options exists.
C3_Witness ==
    /\ pc = "call" /\ Len(Chunk) = 2 /\ batch_size = 2
    /\ Len(grouped) >= 2
    /\ Len(DictGet(payload.kwargs, "prompt").s) = 2

\* C4: if the generation options of any instance of the dispatch are
\* malformed, the InvalidArgument (ValueError) is raised before any backend
\* call of that dispatch: no backend invocation has been made when it is
\* raised.
C4_InvalidBeforeAnyCall ==
    (/\ Raised /\ err.kind = "ValueError"
     /\ \E i \in DOMAIN requests : Malformed(requests[i].kwargs))
        => sent = <<>>

\* a backend call raised an error that is not retried
FatalRaised == Raised /\ err.id > 0 /\ ~Retryable(err.kind)

\* C5: when a backend call raises a non-retryable error, it leaves
\* generate_batch: the failing chunk is the last the backend was invoked
\* for, only instances of earlier chunks have a result, the raising step
\* writes no result, and nothing happens afterwards (no later call, no
\* rollback).
C5_FatalAborts ==
    /\ [](FatalRaised =>
            /\ pc = "raised"
            /\ sent # <<>> /\ sent[Len(sent)] = Chunk
            /\ \A i \in DOMAIN requests :
                  i \notin EarlierSent =>
                      requests[i].result = Unset /\ requests[i].writes = 0)
    /\ [][Raised' => requests' = requests]_vars
    /\ [][Raised => UNCHANGED vars]_vars

\* C5 witness: a fatal error in the second backend call, after the first
\* chunk's result was written, with a third instance never attempted.
C5_Witness ==
    /\ FatalRaised /\ Len(sent) = 2 /\ Len(requests) = 3
    /\ \E i \in EarlierSent : requests[i].result.set
    /\ \E i \in DOMAIN requests :
          i \notin EarlierSent /\ i \notin Range(Chunk)

\* the wrapper gave up: it raised an exception of a kind it retries on
GaveUp == Raised /\ err.id > 0 /\ Retryable(err.kind)

\* the counters of the current oa_completion are exact (not saturated)
Exact == retryable < MaxCount

\* the wrapped call returned: k retryable failures, then k + 1 invocations
\* and k callbacks
CountsOnSuccess ==
    (pc = "scatter" /\ Exact) =>
        invocations = retryable + 1 /\ callbacks = retryable

C7_ExhaustedAfterBudget ==
    /\ max_retries.bounded => invocations <= max_retries.n
    /\ GaveUp =>
          /\ max_retries.bounded
          /\ invocations = max_retries.n
          /\ retryable = invocations
          /\ err = lastExc
          /\ err.id = invocations

\* C7 witness: budget 2, both attempts failed, the second exception left
\* the wrapper.
C7_Witness ==
    /\ GaveUp /\ max_retries = Bounded(2)
    /\ invocations = 2 /\ err.id = 2 /\ firstExc.id = 1

\* C8: an exception that is not in the retryable set of oa_completion (not
\* an OpenAIError) leaves the wrapper from the attempt that raised it: no
\* callback and no sleep for it, so a callable that raises it at once is
\* invoked exactly once, with no callback and no sleep.
C8_NonRetryablePropagatesAtOnce ==
    (lastExc # NoExc /\ ~IsInstance(lastExc.kind, "OpenAIError")) =>
        /\ pc = "raised"
        /\ err = lastExc
        /\ Exact =>
              /\ invocations = retryable + 1
              /\ callbacks = retryable
              /\ sleeps = retryable

\* C8 witness: the first attempt raised a TypeError: one invocation, no
\* callback, no sleep, the error left generate_batch.
C8_Witness ==
    /\ pc = "raised" /\ err.kind = "TypeError"
    /\ invocations = 1 /\ callbacks = 0 /\ sleeps = 0 /\ attempt = 0

\* the number of chunks of a group of n requests
NumChunks(n) ==
    IF batch_size <= 0 THEN 0 ELSE (n + batch_size - 1) \div batch_size

\* a bound on the steps one chunk takes under budget max_retries.n
ChunkCost == 2 * max_retries.n + batch_size + 4

\* a bound on the steps of the groups from the k-th on
RECURSIVE StepsFrom(_, _)
StepsFrom(groups, k) ==
    IF k > Len(groups) THEN 0
    ELSE 1 + NumChunks(Len(groups[k].reqs)) * ChunkCost
         + StepsFrom(groups, k + 1)

\* a bound on the steps generate_batch has left
StepsLeft ==
    LET later == StepsFrom(grouped, gi + 1) + (Len(chunks) - ci) * ChunkCost
    IN CASE pc = "start" -> 1 + StepsFrom(GetGrouped(requests), 1)
         [] pc = "group" -> StepsFrom(grouped, gi)
         [] pc = "chunk" -> later + ChunkCost
         [] pc = "call" -> later + ChunkCost - 1 - 2 * attempt
         [] pc = "retrying" -> later + ChunkCost - 2 - 2 * attempt
         [] pc = "scatter" ->
                later + Min(Len(response), Len(Chunk)) - zi + 2
         [] OTHER -> 0

\* generate_batch stands where one of its steps can be taken: the guard of
\* each action is its place in the code, and the two steps of the zip
\* cover both outcomes of its test
CanStep ==
    /\ pc \in {"start", "group", "chunk", "call", "retrying", "scatter"}
    /\ pc = "group" => gi \in DOMAIN grouped
    /\ pc \in {"chunk", "call", "retrying", "scatter"} =>
          ci \in DOMAIN chunks /\ Chunk # <<>>
    /\ pc = "scatter" => zi >= 1

\* C9: with a bounded retry budget every dispatch over a finite list of
\* instances returns or raises, whatever the backend does (also when it
\* keeps raising retryable errors): until it has returned or raised a step
\* can be taken, and every step lowers a bound on the steps left that never
\* goes below zero.
C9_BoundedBudgetTerminates ==
    /\ [](StepsLeft >= 0)
    /\ [](~Ended => CanStep)
    /\ [](Ended => StepsLeft = 0)
    /\ [][StepsLeft' < StepsLeft]_vars

\* C9 witness: the second backend call of a dispatch kept failing until the
\* budget was spent.
C9_Witness ==
    /\ GaveUp /\ Len(sent) = 2 /\ max_retries.bounded
    /\ sleeps = max_retries.n

\* C10: with max_retries=None, as oa_completion sets it, the wrapper never
\* gives up on a retryable error: after the backoff the call is attempted
\* again, and no retryable error ever leaves oa_completion.
C10_UnboundedNeverGivesUp ==
    /\ [](~GaveUp)
    /\ [](Raised => (err.id = 0 \/ ~Retryable(err.kind)))
    /\ [][pc = "retrying" => pc' = "call"]_vars

\* C10 witness: after more retryable failures than any finite budget of
\* the model the call is being attempted again.
C10_Witness ==
    /\ pc = "call" /\ ~max_retries.bounded
    /\ retryable > MaxBudget /\ sleeps > MaxBudget /\ ~Raised

\* C11: the retry wrapper follows Idle -> Calling -> {Success | Retrying ->
\* Calling | Failed}: a call attempt starts only from the entry of
\* oa_completion or from Retrying, Retrying is entered only from Calling on
\* a retryable error, nothing is attempted after Success or Failed, and for
\* each retryable failure the callback comes before the sleep and the sleep
\* before the next attempt.
C11_RetryStateMachine ==
    /\ [](pc = "retrying" =>
            /\ Retryable(lastExc.kind)
            /\ callbacks < MaxCount =>
                  callbacks = sleeps + 1 /\ invocations = callbacks)
    /\ [](pc = "call" =>
            (callbacks < MaxCount =>
                /\ callbacks = sleeps /\ sleeps = attempt
                /\ invocations = attempt))
    /\ [][pc' = "retrying" =>
            (pc = "call" /\ Retryable(lastExc'.kind)
             /\ (callbacks < MaxCount => callbacks' = callbacks + 1)
             /\ sleeps' = sleeps)]_vars
    /\ [][pc' = "call" => pc \in {"chunk", "retrying"}]_vars
    /\ [][pc = "retrying" =>
            (pc' \in {"call", "raised"}
             /\ (sleeps < MaxCount => sleeps' = sleeps + 1)
             /\ callbacks' = callbacks /\ invocations' = invocations)]_vars
    /\ [][(pc \in {"scatter", "raised", "done"}) =>
            (pc' # "call" /\ pc' # "retrying" /\ UNCHANGED retryVars)]_vars

\* C11 witness: the second retryable failure of a call has been handed to
\* the callback and the sleep for it has not begun.
C11_Witness ==
    /\ pc = "retrying" /\ callbacks = 2 /\ sleeps = 1 /\ invocations = 2

\* the key of the group a chunk was cut from
KeyOf(c) == Str(requests[c[1]].kwargs)

\* the first request of the input with the given key
FirstWithKey(key) ==
    CHOOSE i \in DOMAIN requests :
        /\ Str(requests[i].kwargs) = key
        /\ \A j \in 1..(i - 1) : Str(requests[j].kwargs) # key

\* C12: backend calls are sequential and ordered group-then-chunk: a chunk
\* is handed to the backend only while generate_batch stands at the call,
\* one at a time, and only after the zip of the previous one is over; the
\* chunks of one group are called one after the other in input order, and
\* the groups in order of the first occurrence of their key in the input.
C12_SequentialGroupThenChunk ==
    /\ [](\A k \in DOMAIN sent :
            /\ \A a, b \in DOMAIN sent[k] : a < b => sent[k][a] < sent[k][b]
            /\ \A j \in 1..(k - 1) :
                  IF KeyOf(sent[j]) = KeyOf(sent[k])
                  THEN /\ sent[j][Len(sent[j])] < sent[k][1]
                       /\ \A l \in (j + 1)..(k - 1) :
                             KeyOf(sent[l]) = KeyOf(sent[k])
                  ELSE FirstWithKey(KeyOf(sent[j]))
                          < FirstWithKey(KeyOf(sent[k])))
    /\ [][sent' # sent =>
            (pc = "call" /\ invocations = 0 /\ sent' = Append(sent, Chunk))]_vars
    /\ [][(pc = "scatter" /\ pc' # "scatter") =>
            zi > Min(Len(response), Len(Chunk))]_vars

\* C12 witness: three calls were made for an input whose first and third
\* request share their options and whose second has others: the third
\* request was called before the second.
C12_Witness ==
    /\ Returned /\ Len(requests) = 3 /\ batch_size = 1
    /\ sent = << <<1>>, <<3>>, <<2>> >>

\* the instances whose result has been written
Written == {i \in DOMAIN requests : requests[i].result.set}

\* the progress count is the number of written results, at most the number
\* of submitted instances, and never decreases
ProgressCountsWritten ==
    /\ [](pbar = Cardinality(Written) /\ pbar <= Len(requests))
    /\ [][pbar' >= pbar]_vars

\* C13: the progress count never decreases, is at every point the number
\* of instances whose result has been written, never exceeds the number of
\* submitted instances, and on normal return of generate_batch is the
\* number of submitted instances.
C13_ProgressCountsCompleted ==
    /\ ProgressCountsWritten
    /\ [](Returned => pbar = Len(requests))

\* the places of request i in the groups
PlacesOf(i) ==
    {<<g, k>> \in (DOMAIN grouped) \X (DOMAIN requests) :
        k \in DOMAIN grouped[g].reqs /\ grouped[g].reqs[k] = i}

\* C14: the groups partition the input: every instance is in exactly one
\* group, once; the instances of a group all yield the key of the group and
\* no two groups have the same key; inside a group the instances are in
\* input order; the groups are in order of the first occurrence of their
\* key.
C14_GroupsPartitionInOrder ==
    pc # "start" =>
        /\ \A i \in DOMAIN requests : Cardinality(PlacesOf(i)) = 1
        /\ \A g \in DOMAIN grouped :
              /\ grouped[g].reqs # <<>>
              /\ \A k \in DOMAIN grouped[g].reqs :
                    /\ grouped[g].reqs[k] \in DOMAIN requests
                    /\ Str(requests[grouped[g].reqs[k]].kwargs)
                          = grouped[g].key
                    /\ \A j \in 1..(k - 1) :
                          grouped[g].reqs[j] < grouped[g].reqs[k]
              /\ \A h \in 1..(g - 1) :
                    /\ grouped[h].key # grouped[g].key
                    /\ grouped[h].reqs[1] < grouped[g].reqs[1]

\* C14 witness: three instances, the first and the third with the same
\* options, were grouped: the third joined the group of the first.
C14_Witness ==
    /\ pc # "start" /\ Len(grouped) = 2
    /\ grouped[1].reqs = <<1, 3>> /\ grouped[2].reqs = <<2>>

\* ceil(L / n) for n > 0
CeilDiv(L, n) == (L + n - 1) \div n

\* the chunks one after the other
RECURSIVE Concat(_)
Concat(cs) == IF cs = <<>> THEN <<>> ELSE Head(cs) \o Concat(Tail(cs))

\* the number of calls the groups from g on ask for
RECURSIVE CallsFrom(_)
CallsFrom(g) ==
    IF g > Len(grouped) THEN 0
    ELSE CeilDiv(Len(grouped[g].reqs), batch_size) + CallsFrom(g + 1)

\* generate_batch stands inside the loop over the chunks of group gi
InChunks == pc \in {"chunk", "call", "retrying", "scatter"}

\* C15: with a batch size n > 0 a group of L requests is cut into
\* ceil(L / n) chunks, each but the last of n requests, the last of L mod n
\* (n when that is 0), whose concatenation is the group; so generate_batch,
\* when it returns, has made the sum over the groups of ceil(|g| / n)
\* backend calls: 3 for 5 instances of two kwargs signatures and batch
\* size 2.
C15_ChunkCounts ==
    /\ InChunks =>
          LET L == Len(grouped[gi].reqs)
              n == batch_size
          IN /\ n > 0
             /\ Len(chunks) = CeilDiv(L, n)
             /\ \A k \in 1..(Len(chunks) - 1) : Len(chunks[k]) = n
             /\ Len(chunks[Len(chunks)]) = (IF L % n = 0 THEN n ELSE L % n)
             /\ Concat(chunks) = grouped[gi].reqs
    /\ (batch_size > 0 /\ pc # "start") => Len(sent) <= CallsFrom(1)
    /\ (batch_size > 0 /\ Returned) => Len(sent) = CallsFrom(1)
    /\ (Returned /\ Len(requests) = 5 /\ Len(grouped) = 2 /\ batch_size = 2)
          => Len(sent) = 3

\* C15 witness: generate_batch returned for 5 instances of two kwargs
\* signatures, three of one and two of the other, and batch size 2, after
\* 3 backend calls.
C15_Witness ==
    /\ Returned /\ Len(requests) = 5 /\ batch_size = 2
    /\ Len(grouped) = 2 /\ Len(grouped[1].reqs) = 3
    /\ Len(sent) = 3

\* C16: with a batch size <= 0 chunks() raises InvalidArgument (a
\* ValueError) instead of producing chunks: generate_batch never stands
\* inside the loop over the chunks, no backend call is made, and with at
\* least one request it does not return normally.
C16_NonPositiveBatchSizeRejected ==
    batch_size <= 0 =>
        /\ ~InChunks /\ chunks = <<>>
        /\ sent = <<>> /\ invocations = 0
        /\ Raised => (err.kind = "ValueError" /\ pc = "raised")
        /\ requests # <<>> => ~Returned
        /\ (requests # <<>> /\ pc \notin {"start", "group"}) => Raised

\* C16 witness: generate_batch raised for a request and batch size 0.
C16_Witness ==
    /\ batch_size <= 0 /\ requests # <<>>
    /\ Raised /\ err.kind = "ValueError" /\ sent = <<>>

\* the options of the chunk generate_batch is at
Kw == requests[Chunk[1]].kwargs

\* option k as the chunk's shared kwargs give it, or else the defaults
Opt(k) ==
    IF HasKey(Kw.items, k) THEN [has |-> TRUE, v |-> DictGet(Kw.items, k)]
    ELSE IF HasKey(base_kwargs, k)
         THEN [has |-> TRUE, v |-> DictGet(base_kwargs, k)]
         ELSE [has |-> FALSE, v |-> NoneV]

\* the payload of the chunk has been built and handed to oa_completion
Called == pc \in {"call", "retrying", "scatter"}

\* the chunk's stop_sequences is neither a str nor a list
BadStop ==
    /\ Kw.dict /\ Opt("stop_sequences").has
    /\ Opt("stop_sequences").v.t \notin {"str", "list"}

\* C17: a str stop sequence is sent as the one-element list of it under the
\* key stop, a list stop sequence is sent unchanged, and a stop sequence of
\* any other type makes modify_gen_kwargs raise a ValueError: no payload is
\* built and the backend is not called for the chunk.
C17_StopSequencesNormalized ==
    /\ [](Called =>
            /\ ~BadStop
            /\ HasKey(payload.kwargs, "stop")
            /\ ~HasKey(payload.kwargs, "stop_sequences")
            /\ LET o == Opt("stop_sequences")
                   stop == DictGet(payload.kwargs, "stop")
               IN /\ (o.has /\ o.v.t = "str") =>
                        (stop.t = "list" /\ stop.s = <<o.v.s[1]>>)
                  /\ (o.has /\ o.v.t = "list") => stop = o.v
                  /\ ~o.has => stop = NoneV)
    /\ [][(pc = "chunk" /\ BadStop) =>
            /\ pc' = "raised" /\ err'.kind = "ValueError"
            /\ payload' = payload /\ sent' = sent
            /\ invocations' = 0]_vars

\* C17 witness: the payload of a chunk whose stop sequence is the str
\* "STOP" went to the backend with stop = ["STOP"].
C17_Witness ==
    /\ Called /\ sent # <<>>
    /\ Opt("stop_sequences").v = StrV("STOP")
    /\ DictGet(payload.kwargs, "stop") = ListV(<<"STOP">>)

\* an unsupported stop sequence ended generate_batch before any payload
StopRejectedReached ==
    /\ Raised /\ err.kind = "ValueError" /\ batch_size > 0
    /\ requests[1].kwargs.dict
    /\ HasKey(requests[1].kwargs.items, "stop_sequences")
    /\ DictGet(requests[1].kwargs.items, "stop_sequences") = IntV(7)
    /\ payload = NoPayload /\ sent = <<>>

\* the generic option names of the caller's vocabulary
GenericNames ==
    {"max_new_tokens", "stop_sequences", "min_new_tokens",
     "decoding_method", "random_seed", "model_id_or_path"}

\* C18: the payload handed to the backend has none of the generic names
\* max_new_tokens, stop_sequences, min_new_tokens, decoding_method,
\* random_seed, model_id_or_path as a key, and a max_new_tokens option is
\* carried under the key max_tokens with its value.
C18_GenericNamesTranslated ==
    Called =>
        /\ Keys(payload.kwargs) \cap GenericNames = {}
        /\ Opt("max_new_tokens").has =>
              /\ HasKey(payload.kwargs, "max_tokens")
              /\ DictGet(payload.kwargs, "max_tokens")
                    = Opt("max_new_tokens").v

\* C18 witness: an instance that carries every generic option, with
\* max_new_tokens = 50, was sent with max_tokens = 50.
C18_Witness ==
    /\ Called /\ sent # <<>>
    /\ GenericNames \subseteq Keys(Kw.items)
    /\ DictGet(Kw.items, "max_new_tokens") = IntV(50)
    /\ DictGet(payload.kwargs, "max_tokens") = IntV(50)

\* the backend key an option is sent under
SentName(k) ==
    CASE k = "stop_sequences" -> "stop"
      [] k = "max_new_tokens" -> "max_tokens"
      [] OTHER -> k

\* the value an option is sent with: a str stop sequence as a list
SentValue(k, v) ==
    IF k = "stop_sequences" /\ v.t = "str" THEN ListV(v.s) ELSE v

\* option k goes to the backend with value v
SentWith(k, v) ==
    /\ HasKey(payload.kwargs, SentName(k))
    /\ DictGet(payload.kwargs, SentName(k)) = SentValue(k, v)

\* the model of the call: the instance's model_id_or_path, or else the
\* dispatcher's default model
ModelResolved ==
    payload.model = IF HasKey(Kw.items, "model_id_or_path")
                    THEN DictGet(Kw.items, "model_id_or_path").s[1]
                    ELSE model_id_or_path

\* the names modify_gen_kwargs removes, and the keys the translation and
\* generate_batch write themselves
Stripped == {"min_new_tokens", "decoding_method", "random_seed"}
Overwritten == {"stop", "max_tokens", "prompt"}

\* the options to which merging applies in the call for the chunk
MergedNames(names) ==
    \A k \in names \ {"model_id_or_path"} :
        /\ (k \in Keys(base_kwargs) /\ k \in Keys(Kw.items)) =>
              SentWith(k, DictGet(Kw.items, k))
        /\ (k \in Keys(base_kwargs) /\ k \notin Keys(Kw.items)) =>
              SentWith(k, DictGet(base_kwargs, k))

\* C19 as claimed: every option named by both the defaults and the chunk's
\* kwargs is sent with the chunk's value, every option named by the
\* defaults only is sent with the default value, and the model of the
\* call is the instance's model_id_or_path, or else the default model.
C19_ChunkOverridesDefaults ==
    Called =>
        /\ MergedNames(Keys(base_kwargs))
        /\ ModelResolved

\* C19 amended: the same for every option that modify_gen_kwargs does not
\* remove (min_new_tokens, decoding_method, random_seed) and whose key
\* neither it nor generate_batch writes (stop, max_tokens, prompt);
\* stop_sequences and max_new_tokens are sent as stop and max_tokens.
C19_KeptOptionsChunkOverridesDefaults ==
    Called =>
        /\ MergedNames(Keys(base_kwargs) \ (Stripped \cup Overwritten))
        /\ ModelResolved

\* C19 witness: temperature and max_new_tokens are named by the defaults
\* and by the instance, which also names its model: the call carries the
\* instance's values and model.
C19_Witness ==
    /\ Called /\ sent # <<>>
    /\ {"temperature", "max_new_tokens"} \subseteq Keys(base_kwargs)
    /\ {"temperature", "max_new_tokens", "model_id_or_path"}
          \subseteq Keys(Kw.items)
    /\ DictGet(payload.kwargs, "temperature") = IntV(1)
    /\ DictGet(payload.kwargs, "max_tokens") = IntV(50)
    /\ payload.model = "m2"

\* C20: no step of generate_batch, whether it ends by returning or by
\* raising, changes the args or the kwargs of an instance, the number of
\* instances, self._base_kwargs, self.model_id_or_path, the batch size or
\* the client: of the caller's and the dispatcher's state it writes only
\* the result of submitted instances and the progress count.
C20_FrameOfDispatch ==
    [][/\ DOMAIN requests' = DOMAIN requests
       /\ \A i \in DOMAIN requests :
             /\ requests'[i].args = requests[i].args
             /\ requests'[i].kwargs = requests[i].kwargs
             /\ requests'[i] # requests[i] => pbar' = pbar + 1
       /\ base_kwargs' = base_kwargs
       /\ model_id_or_path' = model_id_or_path
       /\ batch_size' = batch_size
       /\ client' = client]_vars

\* C20 witness: generate_batch returned after translating and sending the
\* options of an instance that names stop_sequences, max_new_tokens and
\* its model, and the instance still carries them.
C20_Witness ==
    /\ Returned
    /\ \E i \in DOMAIN requests :
          /\ requests[i].result.set
          /\ requests[i].kwargs.dict
          /\ {"stop_sequences", "max_new_tokens", "model_id_or_path"}
                \subseteq Keys(requests[i].kwargs.items)

====
